---- MODULE Spec2Model ----
(***************************************************************************)
(* Dynamic maximum-weight independent set solvers over mutable matroids.   *)
(*                                                                         *)
(* Two solvers, NaiveDynamic and RestartGreedy, are each attached to their *)
(* own matroid object; both matroids start equal and receive the same      *)
(* sequence of add_element / remove_element calls (Spec). SpecNaive drives *)
(* NaiveDynamic alone over larger graphs; SpecRemoval drives the           *)
(* uniform-weight removal generator and SpecAddition the addition one.     *)
(* SpecChecker drives a StatefulIndependenceChecker (the default one and   *)
(* the graphical union-find one), SpecUniform builds and mutates uniform   *)
(* matroids, SpecRas and SpecLls drive RandomAccessMutableSet and          *)
(* LinkedListSet. Each specification leaves the other objects untouched.   *)
(*                                                                         *)
(* Matroid kinds: MutableIntUniformMatroid (elements are integers, the     *)
(* ground set is a Python set) and GraphicalMatroid (elements are edges    *)
(* (u, v) of a networkx Graph whose nodes 0..3 were inserted in ascending  *)
(* order, as complete_graph / gnp_random_graph do; callers pass edges with *)
(* u < v, which is also the orientation graph.edges yields then; SpecEdges *)
(* adds remove_element calls that pass an edge as (v, u)).                 *)
(* Weights are floats in the source; only their order, sign and sums       *)
(* matter, so they are small integers here.                                *)
(***************************************************************************)
EXTENDS Integers, Sequences, FiniteSets, TLC

\* ---------------------------------------------------------------- bounds
MaxInts == 3         \* uniform matroids hold elements 0 .. MaxInts - 1
MaxEdges == 3        \* graphical matroids hold the first MaxEdges of AllEdges
MaxRank == 2         \* largest rank of a uniform matroid
MaxWeight == 1       \* weights range over -1 .. MaxWeight
MaxIndicators == 4   \* add_element is not called once _indicators is this long

DefaultWeight == 1   \* get_weight's default, 1.0

Weights == (0 - 1) .. MaxWeight
Vertices == 0 .. 3
\* the edges of K4: in the order they join the universe, and in the order
\* the networkx generators add them (itertools.combinations)
AllEdges == << <<0, 1>>, <<0, 2>>, <<1, 2>>, <<2, 3>>, <<1, 3>>, <<0, 3>> >>
LexEdges == << <<0, 1>>, <<0, 2>>, <<0, 3>>, <<1, 2>>, <<1, 3>>, <<2, 3>> >>

Min(a, b) == IF a <= b THEN a ELSE b
Range(s) == {s[i] : i \in 1 .. Len(s)}

Universe(kind) ==
    IF kind = "uniform"
    THEN 0 .. (MaxInts - 1)
    ELSE {AllEdges[i] : i \in 1 .. Min(MaxEdges, Len(AllEdges))}

Without(s, x) == SelectSeq(s, LAMBDA y : y # x)

InsertAt(s, k, x) == SubSeq(s, 1, k) \o <<x>> \o SubSeq(s, k + 1, Len(s))

\* --------------------------------------------------------------- matroid
\* A matroid object: kind, rank (uniform), elems (the ground set in its
\* iteration order), wt (weight of every ground-set element).
\*  - uniform: a Python set of small non-negative ints iterates ascending;
\*  - graphical: graph.edges visits the nodes in insertion order (ascending
\*    here) and, per node, its neighbours in insertion order, so edges are
\*    grouped by their smaller endpoint and each group is in insertion order.

ground_set(m) == Range(m.elems)

\* the ground set in iteration order
ground_seq(m) == m.elems

\* position after which a new element enters the iteration order
IterationSlot(m, e) ==
    IF m.kind = "uniform"
    THEN Cardinality({i \in 1 .. Len(m.elems) : m.elems[i] < e})
    ELSE Cardinality({i \in 1 .. Len(m.elems) : m.elems[i][1] <= e[1]})

is_empty(m) == Len(m.elems) = 0

get_weight(m, e) == m.wt[e]

RECURSIVE SumWeights(_, _)
SumWeights(m, S) ==
    IF S = {} THEN 0
    ELSE LET x == CHOOSE y \in S : TRUE
         IN  get_weight(m, x) + SumWeights(m, S \ {x})

total_weight(m, S) == SumWeights(m, S)

\* ---- graphical independence: nx.algorithms.tree.is_forest
NodesOf(S) == UNION {{e[1], e[2]} : e \in S}

RECURSIVE Reachable(_, _)
Reachable(S, front) ==
    LET next == front \cup
                {w \in NodesOf(S) :
                    \E e \in S : \/ (e[1] \in front /\ e[2] = w)
                                 \/ (e[2] \in front /\ e[1] = w)}
    IN  IF next = front THEN front ELSE Reachable(S, next)

connected_components(S) == {Reachable(S, {v}) : v \in NodesOf(S)}

\* a wrong test, for comparison: one tree instead of a forest
is_tree(S) == Cardinality(S) = Cardinality(NodesOf(S)) - 1

is_forest(S) ==
    \A c \in connected_components(S) :
        Cardinality({e \in S : e[1] \in c /\ e[2] \in c}) = Cardinality(c) - 1

is_independent(m, S) ==
    IF m.kind = "uniform"
    THEN Cardinality(S) <= m.rank
    ELSE LET sub == S \cap ground_set(m)    \* graph.edge_subgraph(subset)
         IN  sub = {} \/ is_forest(sub)

is_independent_incremental(m, S, e) == is_independent(m, S \cup {e})

\* ---- stateful independence checker
\* subset: the tracked independent subset; uf: node -> component
\* representative (graphical union-find; unused by the default checker).
UFSingletons == [v \in Vertices |-> v]

UFUnion(uf, u, v) ==
    [x \in Vertices |-> IF uf[x] = uf[v] THEN uf[u] ELSE uf[x]]

SetMin(S) == CHOOSE x \in S : \A y \in S : x <= y

stateful_independence_checker(m, S) ==
    [subset |-> S,
     uf |-> IF m.kind = "graphical"
            THEN LET sub == S \cap ground_set(m)
                 IN  [v \in Vertices |->
                        IF v \in NodesOf(sub)
                        THEN SetMin(Reachable(sub, {v})) ELSE v]
            ELSE UFSingletons]

would_be_independent_after_adding(m, ck, e) ==
    IF m.kind = "graphical"
    THEN ck.uf[e[1]] # ck.uf[e[2]] \/ e \in ck.subset
    ELSE is_independent_incremental(m, ck.subset, e)

Checker_add_element(m, ck, e) ==
    [subset |-> ck.subset \cup {e},
     uf |-> IF m.kind = "graphical" THEN UFUnion(ck.uf, e[1], e[2]) ELSE ck.uf]

\* a checker that adds the element whatever the answer
add_unconditionally(m, ck, e) ==
    [checker |-> Checker_add_element(m, ck, e), added |-> TRUE]

add_if_independent(m, ck, e) ==
    IF would_be_independent_after_adding(m, ck, e)
    THEN [checker |-> Checker_add_element(m, ck, e), added |-> TRUE]
    ELSE [checker |-> ck, added |-> FALSE]

\* ---- mutation
\* MutableMatroid.add_element(element, weight): the element joins the ground
\* set; a given weight is stored, a new element without one weighs 1.0, an
\* element already present without one keeps its weight.
Matroid_add_element(m, e, has_weight, w) ==
    LET present == e \in ground_set(m)
        neww == IF has_weight THEN w
                ELSE IF present THEN m.wt[e] ELSE DefaultWeight
    IN  [m EXCEPT
            !.elems = IF present THEN @ ELSE InsertAt(@, IterationSlot(m, e), e),
            !.wt = [x \in ground_set(m) \cup {e} |->
                        IF x = e THEN neww ELSE m.wt[x]]]

\* the tuple (v, u) of an edge given as (u, v)
reversed(e) == <<e[2], e[1]>>

\* graph.remove_edge(*element) takes the endpoints in either order: the edge
\* of the ground set an element stands for
stored_element(m, e) ==
    IF m.kind = "graphical" /\ e \notin ground_set(m)
                            /\ reversed(e) \in ground_set(m)
    THEN reversed(e)
    ELSE e

\* remove_element of an element that is in the ground set
Matroid_remove_element(m, e) ==
    LET x == stored_element(m, e)
    IN  [m EXCEPT
            !.elems = Without(@, x),
            !.wt = [y \in ground_set(m) \ {x} |-> m.wt[y]]]

\* set.remove raises KeyError, Graph.remove_edge raises NetworkXError
\* a removal that ignores a missing element, as set.discard does
remove_is_silent(m, e) == FALSE

remove_raises(m, e) == stored_element(m, e) \notin ground_set(m)

\* ---------------------------------------------------------- static greedy
RECURSIVE SortedFrom(_, _, _)
\* sorted(elements, key=get_weight, reverse=True): stable, descending
InsertSorted(m, s, e) ==
    LET k == Cardinality({i \in 1 .. Len(s) :
                            get_weight(m, s[i]) >= get_weight(m, e)})
    IN  SubSeq(s, 1, k) \o <<e>> \o SubSeq(s, k + 1, Len(s))

SortedFrom(m, s, i) ==
    IF i = 0 THEN << >>
    ELSE InsertSorted(m, SortedFrom(m, s, i - 1), s[i])

\* the elements left in iteration order
sorted_unsorted(m, s) == s

sorted_descending(m, s) == SortedFrom(m, s, Len(s))

\* the filter letting every element through
non_negative_unfiltered(m, s) == s

non_negative(m, s) == SelectSeq(s, LAMBDA x : get_weight(m, x) >= 0)

RECURSIVE GreedyFrom(_, _, _, _)
GreedyFrom(m, ck, s, i) ==
    IF i > Len(s) THEN ck
    ELSE GreedyFrom(m, add_if_independent(m, ck, s[i]).checker, s, i + 1)

greedy_core(m, s) ==
    GreedyFrom(m, stateful_independence_checker(m, {}), s, 1).subset

maximal_independent_set(m) ==
    greedy_core(m, sorted_descending(m, non_negative(m, ground_seq(m))))

\* ------------------------------------------------------------ linked lists
\* llist.dllist / LinkedListSet are sequences; a node is its 1-based
\* position and None is 0.
\* a wrong insert, for comparison: the position is ignored
InsertAtEnd(s, pos, x) == Append(s, x)

InsertBefore(s, pos, x) ==
    IF pos = 0 THEN Append(s, x)
    ELSE SubSeq(s, 1, pos - 1) \o <<x>> \o SubSeq(s, pos, Len(s))

RemoveAt(s, pos) == SubSeq(s, 1, pos - 1) \o SubSeq(s, pos + 1, Len(s))

IndexOf(s, x) == SetMin({i \in 1 .. Len(s) : s[i] = x})

\* LinkedListSet.insert: a value already present is not inserted again
LinkedListSet_insert(s, pos, x) ==
    IF x \in Range(s) THEN s ELSE InsertBefore(s, pos, x)

LinkedListSet_discard(s, x) == Without(s, x)

\* node.next
NextNode(s, pos) == IF pos + 1 <= Len(s) THEN pos + 1 ELSE 0

\* ------------------------------------------------------------ NaiveDynamic
\* A solver object: m (_matroid), elements (_elements), indicators
\* (_indicators), current (_current_solution); result and raised describe
\* the outcome of the last call.

RECURSIVE ReplayFrom(_, _, _, _, _, _)
\* the loop body of _reconstruct_greedy over positions i .. last
ReplayFrom(m, ck, elements, indicators, i, last) ==
    IF i > last THEN ck
    ELSE ReplayFrom(m,
                    IF indicators[i]
                    THEN Checker_add_element(m, ck, elements[i]) ELSE ck,
                    elements, indicators, i + 1, last)

\* until: the elements for which the `until` predicate is true
reconstruct_greedy(m, elements, indicators, until) ==
    LET n == Min(Len(elements), Len(indicators))      \* zip
        hits == {i \in 1 .. n : elements[i] \in until}
        pos == IF hits = {} THEN 0 ELSE SetMin(hits)
    IN  [checker |-> ReplayFrom(m, stateful_independence_checker(m, {}),
                                elements, indicators, 1,
                                IF pos = 0 THEN n ELSE pos - 1),
         element_node |-> pos,
         indicator_node |-> pos]

RECURSIVE ContinueFrom(_, _, _, _, _, _)
ContinueFrom(m, ck, elements, indicators, ei, ii) ==
    IF ei > Len(elements) \/ ii > Len(indicators)      \* zip
    THEN [checker |-> ck, indicators |-> indicators]
    ELSE LET r == add_if_independent(m, ck, elements[ei])
         IN  ContinueFrom(m, r.checker, elements,
                          [indicators EXCEPT ![ii] = r.added], ei + 1, ii + 1)

\* _continue_greedy: LinkedListSet.iter_values(start=None) iterates from the
\* head of the list, iter_nodes(None) over the indicators yields nothing.
continue_greedy(m, ck, elements, indicators, elements_start, indicators_start) ==
    IF indicators_start = 0
    THEN [checker |-> ck, indicators |-> indicators]
    ELSE ContinueFrom(m, ck, elements, indicators,
                      IF elements_start = 0 THEN 1 ELSE elements_start,
                      indicators_start)

AllFalse(n) == [i \in 1 .. n |-> FALSE]

NaiveDynamic_init(m) ==
    LET elements == sorted_descending(m, non_negative(m, ground_seq(m)))
        first == IF Len(elements) = 0 THEN 0 ELSE 1
        g == continue_greedy(m, stateful_independence_checker(m, {}),
                             elements, AllFalse(Len(elements)), first, first)
    IN  [m |-> m, elements |-> elements, indicators |-> g.indicators,
         current |-> g.checker.subset, result |-> g.checker.subset,
         raised |-> FALSE]

\* remove_element of an element that is in the ground set
NaiveDynamic_remove_element(s, e) ==
    LET m == Matroid_remove_element(s.m, e)
    IN  IF e \notin s.current
        THEN [s EXCEPT !.m = m,
                       !.elements = LinkedListSet_discard(@, e),
                       !.result = s.current]
        ELSE
        LET rec == reconstruct_greedy(m, s.elements, s.indicators, {e})
            pos == rec.element_node
        IN  IF pos = 0
            THEN [s EXCEPT !.m = m, !.raised = TRUE]   \* None.next
            ELSE
            LET elements == LinkedListSet_discard(s.elements, e)
                indicators == RemoveAt(s.indicators, pos)
                g == continue_greedy(m, rec.checker, elements, indicators,
                        IF pos <= Len(elements) THEN pos ELSE 0,
                        IF pos <= Len(indicators) THEN pos ELSE 0)
            IN  [s EXCEPT !.m = m, !.elements = elements,
                          !.indicators = g.indicators,
                          !.current = g.checker.subset,
                          !.result = g.checker.subset]

\* GraphicalMatroid.get_weight of an edge that is not in the graph:
\* get_edge_data returns None, whose .get raises AttributeError
get_weight_raises(m, e) == m.kind = "graphical" /\ e \notin ground_set(m)

\* add_element of an element that is not in the ground set (lines 136-160)
NaiveDynamic_add_new(s, e, has_weight, w) ==
    LET m == Matroid_add_element(s.m, e, has_weight, w)
        weight == get_weight(m, e)
        \* the `until` predicate, get_weight(e) < weight, raises when the scan
        \* of _reconstruct_greedy reaches an edge that left the graph
        until_raises ==
            \E i \in 1 .. Min(Len(s.elements), Len(s.indicators)) :
                /\ get_weight_raises(m, s.elements[i])
                /\ \A j \in 1 .. (i - 1) :
                       /\ ~ get_weight_raises(m, s.elements[j])
                       /\ ~ (get_weight(m, s.elements[j]) < weight)
    IN  IF weight < 0
        THEN [s EXCEPT !.m = m, !.result = s.current]
        ELSE IF until_raises
        THEN [s EXCEPT !.m = m, !.raised = TRUE]
        ELSE
        LET rec == reconstruct_greedy(m, s.elements, s.indicators,
                        {x \in Range(s.elements) :
                            /\ ~ get_weight_raises(m, x)
                            /\ get_weight(m, x) < weight})
            elements == LinkedListSet_insert(s.elements, rec.element_node, e)
            element_node == IndexOf(elements, e)
            indicators == InsertBefore(s.indicators, rec.indicator_node, FALSE)
            indicator_node == IF rec.indicator_node = 0
                              THEN Len(indicators) ELSE rec.indicator_node
        IN  IF ~ would_be_independent_after_adding(m, rec.checker, e)
            THEN [s EXCEPT !.m = m, !.elements = elements,
                           !.indicators = indicators, !.result = s.current]
            ELSE
            LET g == continue_greedy(m, Checker_add_element(m, rec.checker, e),
                        elements, [indicators EXCEPT ![indicator_node] = TRUE],
                        NextNode(elements, element_node),
                        NextNode(indicators, indicator_node))
            IN  [s EXCEPT !.m = m, !.elements = elements,
                          !.indicators = g.indicators,
                          !.current = g.checker.subset,
                          !.result = g.checker.subset]

\* the delete-then-add path without its second half
NaiveDynamic_add_element_remove_only(s, e, has_weight, w) ==
    IF e \in ground_set(s.m)
    THEN IF ~ has_weight \/ get_weight(s.m, e) = w
         THEN [s EXCEPT !.result = s.current]
         ELSE NaiveDynamic_remove_element(s, e)
    ELSE NaiveDynamic_add_new(s, e, has_weight, w)

\* a weight update that is ignored, for comparison
NaiveDynamic_add_element_ignore_update(s, e, has_weight, w) ==
    IF e \in ground_set(s.m)
    THEN [s EXCEPT !.result = s.current]
    ELSE NaiveDynamic_add_new(s, e, has_weight, w)

NaiveDynamic_add_element(s, e, has_weight, w) ==
    IF e \in ground_set(s.m)
    THEN IF ~ has_weight \/ get_weight(s.m, e) = w
         THEN [s EXCEPT !.result = s.current]
         ELSE LET r == NaiveDynamic_remove_element(s, e)
              IN  IF r.raised THEN r
                  ELSE NaiveDynamic_add_new(r, e, has_weight, w)
    ELSE NaiveDynamic_add_new(s, e, has_weight, w)

\* ----------------------------------------------------------- RestartGreedy
\* A solver object: m (_matroid), current (_current).
RestartGreedy_init(m) ==
    LET result == maximal_independent_set(m)
    IN  [m |-> m, current |-> result, result |-> result, raised |-> FALSE]

\* the greedy rerun before the matroid is mutated
RestartGreedy_add_element_stale(s, e, has_weight, w) ==
    LET m == Matroid_add_element(s.m, e, has_weight, w)
        result == maximal_independent_set(s.m)
    IN  [s EXCEPT !.m = m, !.current = result, !.result = result]

RestartGreedy_add_element(s, e, has_weight, w) ==
    LET m == Matroid_add_element(s.m, e, has_weight, w)
        result == maximal_independent_set(m)
    IN  [s EXCEPT !.m = m, !.current = result, !.result = result]

\* the greedy rerun on the matroid as it was before the removal
RestartGreedy_remove_element_stale(s, e) ==
    LET m == Matroid_remove_element(s.m, e)
        result == maximal_independent_set(s.m)
    IN  [s EXCEPT !.m = m, !.current = result, !.result = result]

RestartGreedy_remove_element(s, e) ==
    LET m == Matroid_remove_element(s.m, e)
        result == maximal_independent_set(m)
    IN  [s EXCEPT !.m = m, !.current = result, !.result = result]

\* ------------------------------------------- uniform-weight removal generator
\* dynamic_removal_maximal_independent_set_uniform_weights: witness_sets is
\* a sequence of sets (witness_sets[i] of the source is position i + 1),
\* pivots a sequence, step the 0-based greedy step.

\* a first witness set holding every element of the ground set
independent_singletons_all(m) == ground_set(m)

\* the first witness set: the independent singletons
independent_singletons(m) == {x \in ground_set(m) : is_independent(m, {x})}

\* the generator's witness sets leaving a removed element in place
discard_from_none(ws, e) == ws

\* the generator's witness sets with the element discarded from the first only
discard_from_first(ws, e) ==
    [i \in 1 .. Len(ws) |-> IF i = 1 THEN ws[i] \ {e} ELSE ws[i]]

\* for witness_set in witness_sets: witness_set.discard(element_to_remove)
discard_from_all(ws, e) == [i \in 1 .. Len(ws) |-> ws[i] \ {e}]

\* a generator that starts over from the first step
pivot_index_zero(pv, e) == 0

\* pivots.index(element)
pivot_index(pv, e) == IndexOf(pv, e) - 1

RECURSIVE GreedyRuns(_, _, _, _, _)
\* the loop `while available_elements`: every run random.choice allows.
\* available_elements is the last witness set itself, so the pivot is
\* discarded from it in place.
GreedyRuns(m, ck, ws, pv, st) ==
    LET available == ws[st + 1]
    IN  IF available = {}
        THEN {[witness_sets |-> ws, pivots |-> pv, step |-> st,
               current_set |-> ck.subset]}
        ELSE UNION {
            LET ck2 == Checker_add_element(m, ck, pivot)
                rest == available \ {pivot}
                next == {x \in rest :
                            would_be_independent_after_adding(m, ck2, x)}
            IN  GreedyRuns(m, ck2, Append([ws EXCEPT ![st + 1] = rest], next),
                           Append(pv, pivot), st + 1)
            : pivot \in available}

\* one pass of the outer loop up to its first yield: truncate the witness
\* sets and the pivots to the step, rerun the greedy from there
rerun_greedy(m, ws, pv, st) ==
    LET ws1 == SubSeq(ws, 1, st + 1)
        pv1 == SubSeq(pv, 1, st)
    IN  GreedyRuns(m, stateful_independence_checker(m, Range(pv1)), ws1, pv1, st)

\* ------------------------------------------------------------------ state
VARIABLES
    nd_matroid,           \* NaiveDynamic._matroid
    nd_elements,          \* NaiveDynamic._elements
    nd_indicators,        \* NaiveDynamic._indicators
    nd_current_solution,  \* NaiveDynamic._current_solution
    rg_matroid,           \* RestartGreedy._matroid
    rg_current,           \* RestartGreedy._current
    last,                 \* the last call made on both solvers and its outcome
    rm_matroid,           \* the matroid the removal generator runs on
    witness_sets,         \* the generator's witness_sets
    pivots,               \* the generator's pivots
    step,                 \* the generator's step
    current_set,          \* the generator's current_set
    rm_pc,                \* where the generator stands
    rm_last,              \* the last element sent to the generator
    adder,                \* the uniform-weight addition generator and its matroid
    chk,                  \* a StatefulIndependenceChecker and its matroid
    built,                \* the outcome of constructing a uniform matroid
    ras,                  \* a RandomAccessMutableSet
    lls                   \* a LinkedListSet

solver_vars == <<nd_matroid, nd_elements, nd_indicators, nd_current_solution,
                 rg_matroid, rg_current, last>>

generator_vars == <<rm_matroid, witness_sets, pivots, step, current_set,
                    rm_pc, rm_last>>

\* the objects each driven by a specification of its own
component_vars == <<adder, chk, built, ras, lls>>

vars == <<nd_matroid, nd_elements, nd_indicators, nd_current_solution,
          rg_matroid, rg_current, last,
          rm_matroid, witness_sets, pivots, step, current_set, rm_pc, rm_last,
          adder, chk, built, ras, lls>>

\* an object that does not exist in the run at hand
Unused == [pc |-> "unused"]

ComponentsUnused ==
    /\ adder = Unused
    /\ chk = Unused
    /\ built = Unused
    /\ ras = Unused
    /\ lls = Unused

NaiveObject ==
    [m |-> nd_matroid, elements |-> nd_elements, indicators |-> nd_indicators,
     current |-> nd_current_solution, result |-> {}, raised |-> FALSE]

RestartObject ==
    [m |-> rg_matroid, current |-> rg_current, result |-> {}, raised |-> FALSE]

NoElement(kind) == IF kind = "uniform" THEN 0 - 1 ELSE <<0, 0>>

RECURSIVE Ascending(_)
Ascending(S) ==
    IF S = {} THEN << >>
    ELSE LET x == CHOOSE y \in S : \A z \in S : y <= z
         IN  <<x>> \o Ascending(S \ {x})

\* MutableIntUniformMatroid(size, rank, weights): ground set range(size);
\* GraphicalMatroid(graph): the edges of the graph, added in the order of
\* LexEdges.
InitialMatroids ==
    {[kind |-> "uniform", rank |-> r, elems |-> Ascending(DOMAIN f), wt |-> f] :
        <<r, f>> \in (0 .. MaxRank) \X
            UNION {[0 .. (k - 1) -> Weights] : k \in 0 .. MaxInts}}
    \cup
    {[kind |-> "graphical", rank |-> 0,
      elems |-> SelectSeq(LexEdges, LAMBDA x : x \in DOMAIN f), wt |-> f] :
        f \in UNION {[G -> Weights] : G \in SUBSET Universe("graphical")}}

Record(op, e, has_weight, w, nd, rg) ==
    [op |-> op, element |-> e, has_weight |-> has_weight, weight |-> w,
     was_present |-> e \in ground_set(nd_matroid),
     was_negative |-> /\ e \in ground_set(nd_matroid)
                      /\ get_weight(nd_matroid, e) < 0,
     was_pivot |-> e \in nd_current_solution \cap rg_current,
     repeat |-> /\ op = "add" /\ last.op = "add" /\ last.element = e
                /\ last.has_weight = has_weight /\ last.weight = w,
     after_new_add |-> /\ op = "remove" /\ last.op = "add"
                       /\ last.element = e /\ ~ last.was_present,
     nd_raised |-> nd.raised, rg_raised |-> rg.raised,
     nd_result |-> nd.result, rg_result |-> rg.result,
     nd_before |-> IF op = "add" /\ e \notin ground_set(nd_matroid)
                   THEN nd_current_solution ELSE {},
     rg_before |-> IF op = "add" /\ e \notin ground_set(rg_matroid)
                   THEN rg_current ELSE {}]

EmptyMatroid == [kind |-> "uniform", rank |-> 0, elems |-> << >>, wt |-> << >>]

\* a generator object created over m and not yet advanced
GeneratorCreated(m) ==
    /\ rm_matroid = m
    /\ witness_sets = << >>
    /\ pivots = << >>
    /\ step = 0
    /\ current_set = {}
    /\ rm_pc = "created"
    /\ rm_last = [sent |-> FALSE, element |-> NoElement(m.kind),
                  was_pivot |-> FALSE]

\* both solvers constructed over m
SolversConstructed(m) ==
        LET nd == NaiveDynamic_init(m)
            rg == RestartGreedy_init(m)
        IN  /\ nd_matroid = m
            /\ nd_elements = nd.elements
            /\ nd_indicators = nd.indicators
            /\ nd_current_solution = nd.current
            /\ rg_matroid = m
            /\ rg_current = rg.current
            /\ last = [op |-> "init", element |-> NoElement(m.kind),
                       has_weight |-> FALSE, weight |-> 0,
                       was_present |-> FALSE, was_negative |-> FALSE,
                       was_pivot |-> FALSE,
                       repeat |-> FALSE,
                       after_new_add |-> FALSE,
                       nd_raised |-> FALSE, rg_raised |-> FALSE,
                       nd_result |-> nd.current, rg_result |-> rg.current,
                       nd_before |-> {}, rg_before |-> {}]

Init ==
    /\ \E m \in InitialMatroids : SolversConstructed(m)
    /\ GeneratorCreated(EmptyMatroid)
    /\ ComponentsUnused

Apply(nd, rg, rec) ==
    /\ nd_matroid' = nd.m
    /\ nd_elements' = nd.elements
    /\ nd_indicators' = nd.indicators
    /\ nd_current_solution' = nd.current
    /\ rg_matroid' = rg.m
    /\ rg_current' = rg.current
    /\ last' = rec
    /\ UNCHANGED <<generator_vars, component_vars>>

\* solver.add_element(e, weight=w)
AddElement(e, w) ==
    /\ Len(nd_indicators) < MaxIndicators
    /\ LET nd == NaiveDynamic_add_element(NaiveObject, e, TRUE, w)
           rg == RestartGreedy_add_element(RestartObject, e, TRUE, w)
       IN  Apply(nd, rg, Record("add", e, TRUE, w, nd, rg))

\* solver.add_element(e)
AddElementNoWeight(e) ==
    /\ Len(nd_indicators) < MaxIndicators
    /\ LET nd == NaiveDynamic_add_element(NaiveObject, e, FALSE, 0)
           rg == RestartGreedy_add_element(RestartObject, e, FALSE, 0)
       IN  Apply(nd, rg, Record("add", e, FALSE, 0, nd, rg))

\* solver.remove_element(e), e in the ground set
RemoveElement(e) ==
    /\ ~ remove_raises(nd_matroid, e)
    /\ ~ remove_raises(rg_matroid, e)
    /\ LET nd == NaiveDynamic_remove_element(NaiveObject, e)
           rg == RestartGreedy_remove_element(RestartObject, e)
       IN  Apply(nd, rg, Record("remove", e, FALSE, 0, nd, rg))

\* solver.remove_element(e), e not in the ground set: matroid.remove_element
\* raises in the first statement of both solvers' remove_element
RemoveAbsent(e) ==
    /\ remove_raises(nd_matroid, e)
    /\ remove_raises(rg_matroid, e)
    /\ LET nd == [NaiveObject EXCEPT !.raised = TRUE]
           rg == [RestartObject EXCEPT !.raised = TRUE]
       IN  Apply(nd, rg, Record("remove", e, FALSE, 0, nd, rg))

Next ==
    \/ \E e \in Universe(nd_matroid.kind), w \in Weights : AddElement(e, w)
    \/ \E e \in Universe(nd_matroid.kind) : AddElementNoWeight(e)
    \/ \E e \in Universe(nd_matroid.kind) : RemoveElement(e)
    \/ \E e \in Universe(nd_matroid.kind) : RemoveAbsent(e)

Spec == Init /\ [][Next]_vars

\* ------------------------------------------- NaiveDynamic on its own
\* The same calls made on a NaiveDynamic solver alone, attached to a
\* GraphicalMatroid whose initial edges all carry the default weight, over a
\* larger universe and with longer lists; the RestartGreedy variables stay
\* as constructed and `last` keeps the outcome of the call only.
DeepMaxEdges == 4        \* edges of the universe of SpecNaive
DeepMaxIndicators == 5   \* add_element is not called once _indicators is this long

DeepUniverse(kind) ==
    IF kind = "uniform"
    THEN 0 .. (MaxInts - 1)
    ELSE {AllEdges[i] : i \in 1 .. Min(DeepMaxEdges, Len(AllEdges))}

Outcome(op, nd) ==
    [last EXCEPT !.op = op, !.nd_raised = nd.raised, !.nd_result = nd.result]

ApplyNaive(nd, rec) ==
    /\ nd_matroid' = nd.m
    /\ nd_elements' = nd.elements
    /\ nd_indicators' = nd.indicators
    /\ nd_current_solution' = nd.current
    /\ last' = rec
    /\ UNCHANGED <<rg_matroid, rg_current>>
    /\ UNCHANGED <<generator_vars, component_vars>>

NaiveAdd(e, w) ==
    /\ Len(nd_indicators) < DeepMaxIndicators
    /\ LET nd == NaiveDynamic_add_element(NaiveObject, e, TRUE, w)
       IN  ApplyNaive(nd, Outcome("add", nd))

NaiveAddNoWeight(e) ==
    /\ Len(nd_indicators) < DeepMaxIndicators
    /\ LET nd == NaiveDynamic_add_element(NaiveObject, e, FALSE, 0)
       IN  ApplyNaive(nd, Outcome("add", nd))

NaiveRemove(e) ==
    /\ ~ remove_raises(nd_matroid, e)
    /\ LET nd == NaiveDynamic_remove_element(NaiveObject, e)
       IN  ApplyNaive(nd, Outcome("remove", nd))

NaiveRemoveAbsent(e) ==
    /\ remove_raises(nd_matroid, e)
    /\ LET nd == [NaiveObject EXCEPT !.raised = TRUE]
       IN  ApplyNaive(nd, Outcome("remove", nd))

DeepWeights == {0 - 1, DefaultWeight}

InitNaive ==
    /\ Init
    /\ nd_matroid.kind = "graphical"
    /\ \A e \in ground_set(nd_matroid) : get_weight(nd_matroid, e) = DefaultWeight

NextNaive ==
    \/ \E e \in DeepUniverse(nd_matroid.kind), w \in DeepWeights : NaiveAdd(e, w)
    \/ \E e \in DeepUniverse(nd_matroid.kind) : NaiveAddNoWeight(e)
    \/ \E e \in DeepUniverse(nd_matroid.kind) : NaiveRemove(e)
    \/ \E e \in DeepUniverse(nd_matroid.kind) : NaiveRemoveAbsent(e)

SpecNaive == InitNaive /\ [][NextNaive]_vars

\* ------------------------------------- the removal generator on its own
\* A generator created over a matroid whose elements all carry the default
\* weight, advanced by next() and send(e); the solvers are not used.
RemovalMatroids ==
    {[kind |-> "uniform", rank |-> r, elems |-> Ascending(0 .. (k - 1)),
      wt |-> [x \in 0 .. (k - 1) |-> DefaultWeight]] :
        <<r, k>> \in (0 .. MaxRank) \X (0 .. MaxInts)}
    \cup
    {[kind |-> "graphical", rank |-> 0,
      elems |-> SelectSeq(LexEdges, LAMBDA x : x \in G),
      wt |-> [x \in G |-> DefaultWeight]] :
        G \in SUBSET DeepUniverse("graphical")}

InitRemoval ==
    /\ SolversConstructed(EmptyMatroid)
    /\ \E m \in RemovalMatroids : GeneratorCreated(m)
    /\ ComponentsUnused

\* the outer loop from its test to the next yield, for a matroid m
Resume(m, ws, pv, st, sent) ==
    /\ rm_matroid' = m
    /\ rm_last' = sent
    /\ IF is_empty(m)
       THEN /\ rm_pc' = "done"         \* yield set()
            /\ witness_sets' = ws
            /\ pivots' = pv
            /\ step' = st
            /\ UNCHANGED current_set
       ELSE \E run \in rerun_greedy(m, ws, pv, st) :
            /\ rm_pc' = "yielded"      \* yield current_set
            /\ witness_sets' = run.witness_sets
            /\ pivots' = run.pivots
            /\ step' = run.step
            /\ current_set' = run.current_set

\* next(generator): from the start of the body to the first yield
GenStart ==
    /\ rm_pc = "created"
    /\ Resume(rm_matroid, <<independent_singletons(rm_matroid)>>, << >>, 0,
              rm_last)
    /\ UNCHANGED <<solver_vars, component_vars>>

\* generator.send(e), e in the ground set
GenSend(e) ==
    /\ rm_pc = "yielded"
    /\ ~ remove_raises(rm_matroid, e)
    /\ LET m == Matroid_remove_element(rm_matroid, e)
           ws == discard_from_all(witness_sets, e)
           sent == [sent |-> TRUE, element |-> e,
                    was_pivot |-> e \in current_set]
       IN  IF e \notin current_set         \* still_valid
           THEN /\ rm_matroid' = m
                /\ witness_sets' = ws
                /\ rm_last' = sent
                /\ UNCHANGED <<pivots, step, current_set, rm_pc>>
           ELSE Resume(m, ws, pivots, pivot_index(pivots, e), sent)
    /\ UNCHANGED <<solver_vars, component_vars>>

\* generator.send(e), e not in the ground set: matroid.remove_element raises
\* inside the generator, which ends it
GenSendAbsent(e) ==
    /\ rm_pc = "yielded"
    /\ remove_raises(rm_matroid, e)
    /\ rm_pc' = "raised"
    /\ rm_last' = [sent |-> TRUE, element |-> e, was_pivot |-> FALSE]
    /\ UNCHANGED <<rm_matroid, witness_sets, pivots, step, current_set>>
    /\ UNCHANGED <<solver_vars, component_vars>>

\* generator.send(e) after the final yield: the body returns (StopIteration)
GenExhaust ==
    /\ rm_pc = "done"
    /\ rm_pc' = "stopped"
    /\ UNCHANGED <<rm_matroid, witness_sets, pivots, step, current_set, rm_last>>
    /\ UNCHANGED <<solver_vars, component_vars>>

RemovalUniverse(kind) ==
    IF kind = "uniform" THEN Universe(kind) ELSE DeepUniverse(kind)

\* generator.send(e) after the body raised: a generator ended by an exception
\* does not resume, the send raises StopIteration and the body never runs
GenSendFinished(e) ==
    /\ rm_pc = "raised"
    /\ rm_pc' = "stopped"
    /\ rm_last' = [sent |-> TRUE, element |-> e, was_pivot |-> FALSE]
    /\ UNCHANGED <<rm_matroid, witness_sets, pivots, step, current_set>>
    /\ UNCHANGED <<solver_vars, component_vars>>

NextRemoval ==
    \/ GenStart
    \/ \E e \in RemovalUniverse(rm_matroid.kind) : GenSend(e)
    \/ \E e \in RemovalUniverse(rm_matroid.kind) : GenSendAbsent(e)
    \/ \E e \in RemovalUniverse(rm_matroid.kind) : GenSendFinished(e)
    \/ GenExhaust

SpecRemoval == InitRemoval /\ [][NextRemoval]_vars

\* the set the generator has just yielded
yielded_set == IF rm_pc = "done" THEN {} ELSE current_set

\* ------------------------------------------------ SpecAddition: add-only MIS
\* maximal_independent_set_uniform_weights: the greedy core over the ground
\* set in iteration order, no sorting and no weight filter.
maximal_independent_set_uniform_weights(m) == greedy_core(m, ground_seq(m))

\* dynamic_addition_maximal_independent_set_uniform_weights: `adder` holds
\* the matroid handed to the generator, the checker whose subset is the
\* yielded current_set (one set object), and the last element sent.
AdditionMatroids == RemovalMatroids

InitAddition ==
    /\ SolversConstructed(EmptyMatroid)
    /\ GeneratorCreated(EmptyMatroid)
    /\ \E m \in AdditionMatroids :
           adder = [pc |-> "created", matroid |-> m,
                    checker |-> stateful_independence_checker(m, {}),
                    sent |-> NoElement(m.kind)]
    /\ chk = Unused
    /\ built = Unused
    /\ ras = Unused
    /\ lls = Unused

\* everything but the addition generator
addition_frame ==
    <<solver_vars, generator_vars, chk, built, ras, lls>>

\* next(generator): the initial M.I.S. and the checker seeded with it
AdderStart ==
    /\ adder.pc = "created"
    /\ adder' = [adder EXCEPT
           !.pc = "yielded",
           !.checker = stateful_independence_checker(
               adder.matroid,
               maximal_independent_set_uniform_weights(adder.matroid))]
    /\ UNCHANGED addition_frame

\* generator.send(e): add_if_independent(e) on the checker, then the yield
AdderSend(e) ==
    /\ adder.pc = "yielded"
    /\ adder' = [adder EXCEPT
           !.checker = add_if_independent(adder.matroid, adder.checker,
                                          e).checker,
           !.sent = e]
    /\ UNCHANGED addition_frame

NextAddition ==
    \/ AdderStart
    \/ \E e \in RemovalUniverse(adder.matroid.kind) : AdderSend(e)

SpecAddition == InitAddition /\ [][NextAddition]_vars

\* the set the addition generator has just yielded
adder_yielded == adder.checker.subset

\* ------------------------------------- SpecChecker: the stateful checkers
\* nx.utils.UnionFind as graphical.py drives it: parents and weights are
\* dictionaries over the nodes seen so far.
UnionFind_new(nodes) ==
    [parents |-> [x \in nodes |-> x], weights |-> [x \in nodes |-> 1]]

RECURSIVE UnionFind_root(_, _)
UnionFind_root(uf, x) ==
    IF uf.parents[x] = x THEN x ELSE UnionFind_root(uf, uf.parents[x])

\* the objects on the way from x to its root, the root excluded
RECURSIVE UnionFind_path(_, _)
UnionFind_path(uf, x) ==
    IF uf.parents[x] = x THEN {}
    ELSE {x} \cup UnionFind_path(uf, uf.parents[x])

\* uf[x]: an unknown object becomes a root of its own; a known one has the
\* path to its root compressed.  Returns the root and the structure left.
UnionFind_getitem(uf, x) ==
    IF x \notin DOMAIN uf.parents
    THEN [root |-> x,
          uf |-> [parents |-> (x :> x) @@ uf.parents,
                  weights |-> (x :> 1) @@ uf.weights]]
    ELSE LET r == UnionFind_root(uf, x)
             path == UnionFind_path(uf, x)
         IN  [root |-> r,
              uf |-> [parents |-> [y \in DOMAIN uf.parents |->
                                      IF y \in path THEN r
                                      ELSE uf.parents[y]],
                      weights |-> uf.weights]]

\* the roots of a sequence of objects, looked up one after the other
RECURSIVE UnionFind_lookups(_, _, _)
UnionFind_lookups(uf, objects, i) ==
    IF i > Len(objects) THEN [roots |-> {}, uf |-> uf]
    ELSE LET g == UnionFind_getitem(uf, objects[i])
             rest == UnionFind_lookups(g.uf, objects, i + 1)
         IN  [roots |-> {g.root} \cup rest.roots, uf |-> rest.uf]

\* uf.union(*objects): the heaviest root (the smallest node among equally
\* heavy ones, the order a set of small ints is sorted from) adopts the rest
UnionFind_union(uf, objects) ==
    LET l == UnionFind_lookups(uf, objects, 1)
    IN  IF l.roots = {} THEN l.uf
        ELSE LET heavy == {r \in l.roots :
                              \A q \in l.roots :
                                  l.uf.weights[q] <= l.uf.weights[r]}
                 root == SetMin(heavy)
                 others == l.roots \ {root}
             IN  [parents |-> [y \in DOMAIN l.uf.parents |->
                                  IF y \in others THEN root
                                  ELSE l.uf.parents[y]],
                  weights |-> [y \in DOMAIN l.uf.weights |->
                                  IF y = root
                                  THEN SumWeights(
                                           [wt |-> l.uf.weights], l.roots)
                                  ELSE l.uf.weights[y]]]

\* the partition the structure stands for, over all vertices
UnionFind_component(uf, x) ==
    IF x \in DOMAIN uf.parents THEN UnionFind_root(uf, x) ELSE x

UnionFind_partition(uf) ==
    {{y \in Vertices : UnionFind_component(uf, y) = UnionFind_component(uf, x)} :
        x \in Vertices}

\* GraphicalMatroid.StatefulIndependenceChecker.__init__: one union per
\* connected component of graph.edge_subgraph(independent_subset)
RECURSIVE UnionComponents(_, _)
UnionComponents(uf, comps) ==
    IF comps = {} THEN uf
    ELSE LET c == CHOOSE d \in comps :
                      \A o \in comps : SetMin(d) <= SetMin(o)
         IN  UnionComponents(UnionFind_union(uf, Ascending(c)), comps \ {c})

\* a wrong constructor, for comparison: the seed's edges are not merged
GraphicalChecker_init_unseeded(m, S) ==
    [independent_subset |-> S,
     node_to_connected_component |-> UnionFind_new({})]

GraphicalChecker_init(m, S) ==
    LET sub == S \cap ground_set(m)
    IN  [independent_subset |-> S,
         node_to_connected_component |->
             UnionComponents(UnionFind_new(NodesOf(sub)),
                             connected_components(sub))]

\* a wrong query, for comparison: it merges the components it compares
GraphicalChecker_would_be_independent_after_adding_merging(gc, e) ==
    LET gu == UnionFind_getitem(gc.node_to_connected_component, e[1])
        gv == UnionFind_getitem(gu.uf, e[2])
    IN  [answer |-> (gu.root # gv.root) \/ e \in gc.independent_subset,
         checker |-> [gc EXCEPT !.node_to_connected_component =
                          UnionFind_union(gv.uf, <<e[1], e[2]>>)]]

\* both lookups happen before the membership test; they may rewrite the
\* structure, so the checker left behind is returned with the answer
GraphicalChecker_would_be_independent_after_adding(gc, e) ==
    LET gu == UnionFind_getitem(gc.node_to_connected_component, e[1])
        gv == UnionFind_getitem(gu.uf, e[2])
    IN  [answer |-> (gu.root # gv.root) \/ e \in gc.independent_subset,
         checker |-> [gc EXCEPT !.node_to_connected_component = gv.uf]]

\* a wrong add_element, for comparison: the components are not merged
GraphicalChecker_add_element_no_union(gc, e) ==
    [gc EXCEPT !.independent_subset = @ \cup {e}]

GraphicalChecker_add_element(gc, e) ==
    [independent_subset |-> gc.independent_subset \cup {e},
     node_to_connected_component |->
         UnionFind_union(gc.node_to_connected_component, <<e[1], e[2]>>)]

GraphicalChecker_add_if_independent(gc, e) ==
    LET q == GraphicalChecker_would_be_independent_after_adding(gc, e)
    IN  IF q.answer
        THEN [answer |-> TRUE,
              checker |-> GraphicalChecker_add_element(q.checker, e)]
        ELSE [answer |-> FALSE, checker |-> q.checker]

\* the default checker keeps nothing but the subset
DefaultChecker_init(m, S) ==
    [independent_subset |-> S, node_to_connected_component |-> UnionFind_new({})]

DefaultChecker_would_be_independent_after_adding(m, dc, e) ==
    [answer |-> is_independent_incremental(m, dc.independent_subset, e),
     checker |-> dc]

DefaultChecker_add_if_independent(m, dc, e) ==
    LET q == DefaultChecker_would_be_independent_after_adding(m, dc, e)
    IN  IF q.answer
        THEN [answer |-> TRUE,
              checker |-> [dc EXCEPT !.independent_subset = @ \cup {e}]]
        ELSE [answer |-> FALSE, checker |-> dc]

\* the checker class a matroid hands out
Checker_init(m, S) ==
    IF m.kind = "graphical" THEN GraphicalChecker_init(m, S)
    ELSE DefaultChecker_init(m, S)

Checker_would_be_independent_after_adding(m, c, e) ==
    IF m.kind = "graphical"
    THEN GraphicalChecker_would_be_independent_after_adding(c, e)
    ELSE DefaultChecker_would_be_independent_after_adding(m, c, e)

Checker_add_if_independent(m, c, e) ==
    IF m.kind = "graphical"
    THEN GraphicalChecker_add_if_independent(c, e)
    ELSE DefaultChecker_add_if_independent(m, c, e)

\* matroids the checkers are created on: the graphs may hold a self-loop
SelfLoop == <<3, 3>>

CheckerUniverse(kind) ==
    IF kind = "uniform" THEN Universe(kind)
    ELSE DeepUniverse(kind) \cup {SelfLoop}

CheckerMatroids ==
    {m \in RemovalMatroids : m.kind = "uniform"}
    \cup
    {[kind |-> "graphical", rank |-> 0,
      elems |-> SelectSeq(LexEdges \o <<SelfLoop>>, LAMBDA x : x \in G),
      wt |-> [x \in G |-> DefaultWeight]] :
        G \in SUBSET CheckerUniverse("graphical")}

\* `chk`: the matroid, the checker (matroid.stateful_independence_checker
\* (seed)), the seed, and a record of the last call on the checker
InitChecker ==
    /\ SolversConstructed(EmptyMatroid)
    /\ GeneratorCreated(EmptyMatroid)
    /\ \E m \in CheckerMatroids :
       \E S \in SUBSET ground_set(m) :
           /\ is_independent(m, S)
           /\ chk = [pc |-> "ready", matroid |-> m, seed |-> S,
                     checker |-> Checker_init(m, S),
                     call |-> [op |-> "init", element |-> NoElement(m.kind),
                               answer |-> TRUE,
                               before |-> Checker_init(m, S)]]
    /\ adder = Unused
    /\ built = Unused
    /\ ras = Unused
    /\ lls = Unused

checker_frame ==
    <<solver_vars, generator_vars, adder, built, ras, lls>>

\* checker.would_be_independent_after_adding(e)
CheckerQuery(e) ==
    /\ chk.pc = "ready"
    /\ LET q == Checker_would_be_independent_after_adding(
                    chk.matroid, chk.checker, e)
       IN  chk' = [chk EXCEPT
               !.checker = q.checker,
               !.call = [op |-> "would_be_independent_after_adding",
                         element |-> e, answer |-> q.answer,
                         before |-> chk.checker]]
    /\ UNCHANGED checker_frame

\* checker.add_if_independent(e)
CheckerAddIfIndependent(e) ==
    /\ chk.pc = "ready"
    /\ LET q == Checker_add_if_independent(chk.matroid, chk.checker, e)
       IN  chk' = [chk EXCEPT
               !.checker = q.checker,
               !.call = [op |-> "add_if_independent",
                         element |-> e, answer |-> q.answer,
                         before |-> chk.checker]]
    /\ UNCHANGED checker_frame

NextChecker ==
    \/ \E e \in ground_set(chk.matroid) : CheckerQuery(e)
    \/ \E e \in ground_set(chk.matroid) : CheckerAddIfIndependent(e)

SpecChecker == InitChecker /\ [][NextChecker]_vars

\* the subset the checker tracks
tracked_subset == chk.checker.independent_subset

\* ----------------------------------- SpecUniform: building uniform matroids
\* the dataclass fields size, rank and weights (the dictionary of overridden
\* weights), the ground set (_elements of the mutable class, range(size) of
\* the immutable one), and whether the constructor raised
UniformObject(mutable, size, rank, weights, raised) ==
    [pc |-> "constructed", mutable |-> mutable, size |-> size,
     rank |-> rank, weights |-> weights,
     elements |-> 0 .. (size - 1), raised |-> raised]

\* a constructor that rejects rank > size, for comparison
IntUniformMatroid_init_validating(mutable, size, rank, weights) ==
    UniformObject(mutable, size, rank, weights, rank > size)

\* IntUniformMatroid(size, rank, weights) and its mutable subclass: the
\* generated __init__ stores the fields; __post_init__ fills _elements
IntUniformMatroid_init(mutable, size, rank, weights) ==
    UniformObject(mutable, size, rank, weights, FALSE)

\* the object as a matroid: weights.get(element, 1.0)
UniformMatroid(b) ==
    [kind |-> "uniform", rank |-> b.rank, elems |-> Ascending(b.elements),
     wt |-> [x \in b.elements |->
                IF x \in DOMAIN b.weights THEN b.weights[x]
                ELSE DefaultWeight]]

\* dictionaries of overridden weights for a ground set of the given size
WeightOverrides(size) ==
    UNION {[D -> Weights \ {DefaultWeight}] : D \in SUBSET (0 .. (size - 1))}

InitUniform ==
    /\ SolversConstructed(EmptyMatroid)
    /\ GeneratorCreated(EmptyMatroid)
    /\ \E mutable \in BOOLEAN, size \in 0 .. MaxInts, rank \in 0 .. MaxRank :
       \E weights \in WeightOverrides(size) :
           built = IntUniformMatroid_init(mutable, size, rank, weights)
    /\ adder = Unused
    /\ chk = Unused
    /\ ras = Unused
    /\ lls = Unused

uniform_frame == <<solver_vars, generator_vars, adder, chk, ras, lls>>

\* MutableIntUniformMatroid.add_element(element)
UniformAddElement(e) ==
    /\ built.mutable
    /\ ~ built.raised
    /\ built' = [built EXCEPT !.pc = "mutated", !.elements = @ \cup {e}]
    /\ UNCHANGED uniform_frame

\* MutableIntUniformMatroid.remove_element(element), element present
UniformRemoveElement(e) ==
    /\ built.mutable
    /\ ~ built.raised
    /\ e \in built.elements
    /\ built' = [built EXCEPT !.pc = "mutated", !.elements = @ \ {e}]
    /\ UNCHANGED uniform_frame

NextUniform ==
    \/ \E e \in Universe("uniform") : UniformAddElement(e)
    \/ \E e \in Universe("uniform") : UniformRemoveElement(e)

SpecUniform == InitUniform /\ [][NextUniform]_vars

\* ------------------------------------------ SpecRas: RandomAccessMutableSet
\* _list is a sequence (position i of the source is i + 1 here) and
\* _element_to_index a function from the stored values to 0-based indices.
MaxIterable == 4     \* longest iterable a set is built from

RasValues == Universe("uniform")

\* RandomAccessMutableSet.add: a new value is appended, its index is the
\* former length
RandomAccessMutableSet_add(s, value) ==
    IF value \in DOMAIN s.element_to_index THEN s
    ELSE [list |-> Append(s.list, value),
          element_to_index |->
              (value :> Cardinality(DOMAIN s.element_to_index))
              @@ s.element_to_index]

\* RandomAccessMutableSet.__init__: the first occurrence of each item
RECURSIVE RasFromIterable(_, _, _)
RasFromIterable(s, iterable, i) ==
    IF i > Len(iterable) THEN s
    ELSE RasFromIterable(
             IF iterable[i] \in DOMAIN s.element_to_index THEN s
             ELSE [list |-> Append(s.list, iterable[i]),
                   element_to_index |->
                       (iterable[i] :> Len(s.list)) @@ s.element_to_index],
             iterable, i + 1)

RandomAccessMutableSet_init(iterable) ==
    RasFromIterable([list |-> << >>, element_to_index |-> << >>], iterable, 1)

\* a wrong discard, for comparison: the value's entry is deleted before the
\* moved element's index is stored
RandomAccessMutableSet_discard_delete_first(s, value) ==
    IF value \notin DOMAIN s.element_to_index THEN s
    ELSE LET index == s.element_to_index[value]
             last_element == s.list[Len(s.list)]
             moved == [s.list EXCEPT ![index + 1] = last_element]
             deleted == [x \in DOMAIN s.element_to_index \ {value} |->
                            s.element_to_index[x]]
         IN  [list |-> SubSeq(moved, 1, Len(moved) - 1),
              element_to_index |-> (last_element :> index) @@ deleted]

\* RandomAccessMutableSet.discard: the last_element element moves into the hole, the
\* list is popped, the moved element's index is stored, the value's entry
\* is deleted
RandomAccessMutableSet_discard(s, value) ==
    IF value \notin DOMAIN s.element_to_index THEN s
    ELSE LET index == s.element_to_index[value]
             last_element == s.list[Len(s.list)]
             moved == [s.list EXCEPT ![index + 1] = last_element]
             stored == [s.element_to_index EXCEPT ![last_element] = index]
         IN  [list |-> SubSeq(moved, 1, Len(moved) - 1),
              element_to_index |->
                  [x \in DOMAIN stored \ {value} |-> stored[x]]]

\* MutableSet.remove: KeyError when the value is absent, else discard
RandomAccessMutableSet_remove_raises(s, value) ==
    value \notin DOMAIN s.element_to_index

Iterables == UNION {[1 .. n -> RasValues] : n \in 0 .. MaxIterable}

\* `ras`: the object, the mathematical set it stands for, the last call
RasState(s, members, op, value, raised, before) ==
    [pc |-> "ready", set |-> s, members |-> members,
     call |-> [op |-> op, value |-> value, raised |-> raised,
               before |-> before]]

InitRas ==
    /\ SolversConstructed(EmptyMatroid)
    /\ GeneratorCreated(EmptyMatroid)
    /\ \E iterable \in Iterables :
           ras = RasState(RandomAccessMutableSet_init(iterable),
                          Range(iterable), "init", NoElement("uniform"),
                          FALSE, RandomAccessMutableSet_init(iterable))
    /\ adder = Unused
    /\ chk = Unused
    /\ built = Unused
    /\ lls = Unused

ras_frame == <<solver_vars, generator_vars, adder, chk, built, lls>>

RasAdd(x) ==
    /\ ras' = RasState(RandomAccessMutableSet_add(ras.set, x),
                       ras.members \cup {x}, "add", x, FALSE, ras.set)
    /\ UNCHANGED ras_frame

RasDiscard(x) ==
    /\ ras' = RasState(RandomAccessMutableSet_discard(ras.set, x),
                       ras.members \ {x}, "discard", x, FALSE, ras.set)
    /\ UNCHANGED ras_frame

RasRemove(x) ==
    /\ ~ RandomAccessMutableSet_remove_raises(ras.set, x)
    /\ ras' = RasState(RandomAccessMutableSet_discard(ras.set, x),
                       ras.members \ {x}, "remove", x, FALSE, ras.set)
    /\ UNCHANGED ras_frame

RasRemoveAbsent(x) ==
    /\ RandomAccessMutableSet_remove_raises(ras.set, x)
    /\ ras' = RasState(ras.set, ras.members, "remove", x, TRUE, ras.set)
    /\ UNCHANGED ras_frame

NextRas ==
    \/ \E x \in RasValues : RasAdd(x)
    \/ \E x \in RasValues : RasDiscard(x)
    \/ \E x \in RasValues : RasRemove(x)
    \/ \E x \in RasValues : RasRemoveAbsent(x)

SpecRas == InitRas /\ [][NextRas]_vars

\* ---------------------------------------------- SpecLls: LinkedListSet
\* llist.dllist with node identities: `nodes` is the chain of nodes from
\* first to last and `value` the value each node holds; None is node 0.
\* A node object no longer in the list is garbage, so its identity is free.
LlsValues == Universe("uniform")

NodeIds == 1 .. Cardinality(LlsValues)

NoNode == 0

FreshNode(l) == SetMin(NodeIds \ Range(l.nodes))

NodeIndex(l, node) == IndexOf(l.nodes, node)

\* dllist.insert(x, before): a new node holding x, linked in before the node
\* `before`, or appended when `before` is None; dllist.append(x) is the latter
dllist_insert(l, x, before) ==
    LET node == FreshNode(l)
    IN  [node |-> node,
         llist |-> [nodes |-> InsertBefore(l.nodes,
                                  IF before = NoNode THEN 0
                                  ELSE NodeIndex(l, before), node),
                    value |-> (node :> x) @@ l.value]]

\* dllist.remove(node)
dllist_remove(l, node) ==
    [nodes |-> Without(l.nodes, node),
     value |-> [n \in DOMAIN l.value \ {node} |-> l.value[n]]]

\* the values of the list, first to last (iter(self._llist))
dllist_values(l) == [i \in 1 .. Len(l.nodes) |-> l.value[l.nodes[i]]]

\* LinkedListSet.insert: returns the node and the set left
LinkedListSetNodes_insert(s, position, value) ==
    IF value \notin DOMAIN s.value_to_node
    THEN LET ins == dllist_insert(s.llist, value, position)
         IN  [node |-> ins.node,
              set |-> [llist |-> ins.llist,
                       value_to_node |->
                           (value :> ins.node) @@ s.value_to_node]]
    ELSE [node |-> s.value_to_node[value], set |-> s]

\* LinkedListSet.add
LinkedListSetNodes_add(s, value) ==
    LinkedListSetNodes_insert(s, NoNode, value).set

\* a wrong discard, for comparison: the node stays in the list
LinkedListSetNodes_discard_unlinked(s, value) ==
    [llist |-> s.llist,
     value_to_node |-> [v \in DOMAIN s.value_to_node \ {value} |->
                           s.value_to_node[v]]]

\* LinkedListSet.discard: the entry is popped and its node removed
LinkedListSetNodes_discard(s, value) ==
    IF value \notin DOMAIN s.value_to_node THEN s
    ELSE [llist |-> dllist_remove(s.llist, s.value_to_node[value]),
          value_to_node |-> [v \in DOMAIN s.value_to_node \ {value} |->
                                s.value_to_node[v]]]

\* LinkedListSet.__init__: the first occurrence of each element is appended
RECURSIVE LlsFromIterable(_, _, _)
LlsFromIterable(s, elements, i) ==
    IF i > Len(elements) THEN s
    ELSE LlsFromIterable(
             IF elements[i] \in DOMAIN s.value_to_node THEN s
             ELSE LET ins == dllist_insert(s.llist, elements[i], NoNode)
                  IN  [llist |-> ins.llist,
                       value_to_node |->
                           (elements[i] :> ins.node) @@ s.value_to_node],
             elements, i + 1)

LinkedListSetNodes_init(elements) ==
    LlsFromIterable([llist |-> [nodes |-> << >>, value |-> << >>],
                     value_to_node |-> << >>], elements, 1)

\* `lls`: the object and the last call with its arguments, the node it
\* returned and the object before it
LlsState(s, op, position, value, node, before) ==
    [pc |-> "ready", set |-> s,
     call |-> [op |-> op, position |-> position, value |-> value,
               node |-> node, before |-> before]]

InitLls ==
    /\ SolversConstructed(EmptyMatroid)
    /\ GeneratorCreated(EmptyMatroid)
    /\ \E elements \in Iterables :
           lls = LlsState(LinkedListSetNodes_init(elements), "init", NoNode,
                          NoElement("uniform"), NoNode,
                          LinkedListSetNodes_init(elements))
    /\ adder = Unused
    /\ chk = Unused
    /\ built = Unused
    /\ ras = Unused

lls_frame == <<solver_vars, generator_vars, adder, chk, built, ras>>

\* insert(position, value), position a node of the list or None
LlsInsert(position, value) ==
    /\ position = NoNode \/ position \in Range(lls.set.llist.nodes)
    /\ LET r == LinkedListSetNodes_insert(lls.set, position, value)
       IN  lls' = LlsState(r.set, "insert", position, value, r.node, lls.set)
    /\ UNCHANGED lls_frame

LlsAdd(value) ==
    /\ lls' = LlsState(LinkedListSetNodes_add(lls.set, value), "add", NoNode,
                       value, NoNode, lls.set)
    /\ UNCHANGED lls_frame

LlsDiscard(value) ==
    /\ lls' = LlsState(LinkedListSetNodes_discard(lls.set, value), "discard",
                       NoNode, value, NoNode, lls.set)
    /\ UNCHANGED lls_frame

NextLls ==
    \/ \E position \in {NoNode} \cup NodeIds, value \in LlsValues :
           LlsInsert(position, value)
    \/ \E value \in LlsValues : LlsAdd(value)
    \/ \E value \in LlsValues : LlsDiscard(value)

SpecLls == InitLls /\ [][NextLls]_vars

\* ------------------------------ SpecEdges: edges given in either orientation
\* Both solvers over a GraphicalMatroid whose edges carry the default weight,
\* driven by add_element(e), remove_element(e) and by remove_element((v, u))
\* for an edge the ground set holds as (u, v).
InitEdges ==
    /\ \E m \in {x \in InitialMatroids :
                   /\ x.kind = "graphical"
                   /\ \A e \in ground_set(x) : x.wt[e] = DefaultWeight} :
           SolversConstructed(m)
    /\ GeneratorCreated(EmptyMatroid)
    /\ ComponentsUnused

\* solver.remove_element((v, u)), (u, v) in the ground set; `last` records
\* the tuple as it was passed
RemoveElementReversed(e) ==
    /\ e \in ground_set(nd_matroid)
    /\ e \in ground_set(rg_matroid)
    /\ reversed(e) \notin ground_set(nd_matroid)
    /\ ~ remove_raises(nd_matroid, reversed(e))
    /\ ~ remove_raises(rg_matroid, reversed(e))
    /\ LET nd == NaiveDynamic_remove_element(NaiveObject, reversed(e))
           rg == RestartGreedy_remove_element(RestartObject, reversed(e))
       IN  Apply(nd, rg,
                 [Record("remove_reversed", e, FALSE, 0, nd, rg)
                      EXCEPT !.element = reversed(e)])

NextEdges ==
    \/ \E e \in Universe("graphical") : AddElementNoWeight(e)
    \/ \E e \in Universe("graphical") : RemoveElement(e)
    \/ \E e \in Universe("graphical") : RemoveAbsent(e)
    \/ \E e \in Universe("graphical") : RemoveElementReversed(e)

SpecEdges == InitEdges /\ [][NextEdges]_vars

\* =================================================================== claims

\* C1: after construction and after every add_element / remove_element call
\* on NaiveDynamic, `current` and the set returned by the call are subsets of
\* the matroid's ground set and independent in the matroid.
C1_NaiveCurrentIndependent ==
    /\ nd_current_solution \subseteq ground_set(nd_matroid)
    /\ is_independent(nd_matroid, nd_current_solution)
    /\ ~ last.nd_raised =>
        /\ last.nd_result \subseteq ground_set(nd_matroid)
        /\ is_independent(nd_matroid, last.nd_result)

\* C2: driven by the same calls, after every call the NaiveDynamic solution
\* has the same total weight and the same size as the RestartGreedy one.
C2_NaiveMatchesRestart ==
    /\ total_weight(nd_matroid, nd_current_solution)
           = total_weight(rg_matroid, rg_current)
    /\ Cardinality(nd_current_solution) = Cardinality(rg_current)

\* the element list and the indicator list of NaiveDynamic align
Aligned ==
    /\ Len(nd_indicators) = Len(nd_elements)
    /\ \A i \in 1 .. Len(nd_elements) :
           nd_indicators[i] <=> nd_elements[i] \in nd_current_solution

\* both solvers' matroids receive the same mutations
SameMatroid ==
    /\ ground_set(nd_matroid) = ground_set(rg_matroid)
    /\ nd_matroid.wt = rg_matroid.wt

\* NaiveDynamic raises only when the matroid does
RaisesTogether == last.nd_raised = last.rg_raised

\* C3: after construction and after every add_element / remove_element call
\* on RestartGreedy, `current` and the value returned by the call equal the
\* static greedy maximal_independent_set run on the matroid as it is now.
C3_RestartIsStaticGreedy ==
    /\ rg_current = maximal_independent_set(rg_matroid)
    /\ ~ last.rg_raised => last.rg_result = maximal_independent_set(rg_matroid)

\* a removal of a solution element after which the solution is not empty
C3_Witness ==
    /\ last.op = "remove"
    /\ last.was_pivot
    /\ ~ last.rg_raised
    /\ last.rg_result # {}
    /\ rg_current = last.rg_result

\* brute force: the largest total weight of an independent subset
IndependentSubsets(m) == {S \in SUBSET ground_set(m) : is_independent(m, S)}

MaxIndependentWeight(m) ==
    LET totals == {total_weight(m, S) : S \in IndependentSubsets(m)}
    IN  CHOOSE t \in totals : \A u \in totals : u <= t

\* C4: for every weighted matroid the solvers are attached to, the static
\* greedy returns an independent subset of the ground set whose total weight
\* is the maximum over all independent subsets (brute-force enumeration).
C4_StaticGreedyOptimal ==
    LET S == maximal_independent_set(rg_matroid)
    IN  /\ S \subseteq ground_set(rg_matroid)
        /\ is_independent(rg_matroid, S)
        /\ total_weight(rg_matroid, S) = MaxIndependentWeight(rg_matroid)

\* a matroid whose ground set is dependent, with a negative weight among
\* distinct weights, on which the greedy result is not empty
C4_Witness ==
    /\ ~ is_independent(rg_matroid, ground_set(rg_matroid))
    /\ \E e \in ground_set(rg_matroid) : get_weight(rg_matroid, e) < 0
    /\ \E e, f \in ground_set(rg_matroid) :
           0 <= get_weight(rg_matroid, e)
           /\ get_weight(rg_matroid, e) < get_weight(rg_matroid, f)
    /\ maximal_independent_set(rg_matroid) # {}
    /\ last.op # "init"

NoNegative(m, S) == \A e \in S \cap ground_set(m) : get_weight(m, e) >= 0

C7_SecondAddStep ==
    last'.repeat =>
        /\ ~ last'.nd_raised /\ ~ last'.rg_raised
        /\ ~ last.nd_raised => last'.nd_result = last.nd_result
        /\ last'.rg_result = last.rg_result
        /\ ground_set(nd_matroid') = ground_set(nd_matroid)
        /\ ground_set(rg_matroid') = ground_set(rg_matroid)
        /\ get_weight(nd_matroid', last'.element)
               = get_weight(nd_matroid, last'.element)
        /\ get_weight(rg_matroid', last'.element)
               = get_weight(rg_matroid, last'.element)

C8_RoundTripStep ==
    last'.after_new_add =>
        /\ ~ last'.nd_raised /\ ~ last'.rg_raised
        /\ last'.nd_result = last.nd_before
        /\ last'.rg_result = last.rg_before

C8_AddRemoveRestores == [][C8_RoundTripStep]_vars

\* the RestartGreedy half of C8
C8_RestartStep ==
    last'.after_new_add =>
        ~ last'.rg_raised /\ last'.rg_result = last.rg_before

C8_RestartRestores == [][C8_RestartStep]_vars

\* C9: add_element(e, w) leaves the ground set equal to the previous one
\* plus e, remove_element(e) to the previous one minus e, on both solvers.
C9_GroundSetStep ==
    /\ last'.op = "add" =>
        /\ ground_set(nd_matroid') = ground_set(nd_matroid) \cup {last'.element}
        /\ ground_set(rg_matroid') = ground_set(rg_matroid) \cup {last'.element}
    /\ last'.op = "remove" =>
        /\ ground_set(nd_matroid') = ground_set(nd_matroid) \ {last'.element}
        /\ ground_set(rg_matroid') = ground_set(rg_matroid) \ {last'.element}

C10_RemoveAbsentStep ==
    /\ (last'.op = "remove" /\ last'.element \notin ground_set(nd_matroid)) =>
        /\ last'.nd_raised
        /\ UNCHANGED <<nd_matroid, nd_elements, nd_indicators,
                       nd_current_solution>>
    /\ (last'.op = "remove" /\ last'.element \notin ground_set(rg_matroid)) =>
        /\ last'.rg_raised
        /\ UNCHANGED <<rg_matroid, rg_current>>

C10_RemoveAbsentFails == [][C10_RemoveAbsentStep]_vars

\* a failed removal on solvers that hold a solution
C10_Witness ==
    /\ last.op = "remove"
    /\ last.nd_raised
    /\ last.rg_raised
    /\ last.element \notin ground_set(nd_matroid)
    /\ nd_current_solution # {}
    /\ rg_current # {}

\* the rank of a matroid: the size of its largest independent subsets
Rank(m) ==
    LET sizes == {Cardinality(S) : S \in IndependentSubsets(m)}
    IN  CHOOSE n \in sizes : \A k \in sizes : k <= n

\* C5: the set the uniform-weight removal generator yields, initially and
\* after each send(e), is independent in the matroid as it is now, has the
\* size of the matroid's rank (no element of the ground set can be added to
\* it), and does not contain the removed element.
C5_RemovalYieldsBasis ==
    rm_pc \in {"yielded", "done"} =>
        /\ yielded_set \subseteq ground_set(rm_matroid)
        /\ is_independent(rm_matroid, yielded_set)
        /\ Cardinality(yielded_set) = Rank(rm_matroid)
        /\ \A x \in ground_set(rm_matroid) \ yielded_set :
               ~ is_independent(rm_matroid, yielded_set \cup {x})
        /\ rm_last.sent => rm_last.element \notin yielded_set

\* a pivot other than the first has been removed and the greedy rerun gave
\* a set that leaves elements of the ground set out
C5_Witness ==
    /\ rm_pc = "yielded"
    /\ rm_last.sent
    /\ rm_last.was_pivot
    /\ step >= 2
    /\ rm_last.element \notin Range(pivots)
    /\ yielded_set # {}
    /\ ground_set(rm_matroid) \ yielded_set # {}

\* C11: in the uniform-weight addition generator, after every send the sent
\* element is in the matroid's ground set and the yielded set is a maximal
\* independent set of that ground set.
C11_AdditionYieldsBasis ==
    (adder.pc = "yielded" /\ adder.sent # NoElement(adder.matroid.kind)) =>
        /\ adder.sent \in ground_set(adder.matroid)
        /\ adder_yielded \subseteq ground_set(adder.matroid)
        /\ is_independent(adder.matroid, adder_yielded)
        /\ \A x \in ground_set(adder.matroid) \ adder_yielded :
               ~ is_independent(adder.matroid, adder_yielded \cup {x})

\* C12: the independence oracles of the graphical and the uniform matroid
\* satisfy the matroid axioms: every subset of an independent set is
\* independent, and for independent A, B with |A| < |B| some x in B \ A
\* keeps A \cup {x} independent.
C12_MatroidAxioms ==
    LET m == chk.matroid
        E == ground_set(m)
    IN  \A B \in SUBSET E :
            is_independent(m, B) =>
                /\ \A A \in SUBSET B : is_independent(m, A)
                /\ \A A \in SUBSET E :
                       (is_independent(m, A) /\ Cardinality(A) < Cardinality(B))
                       => \E x \in B \ A : is_independent(m, A \cup {x})

\* a graph with a cycle, where some element of B \ A does not augment A, and
\* the oracle has just rejected an element
C12_Witness ==
    LET m == chk.matroid
        E == ground_set(m)
    IN  /\ m.kind = "graphical"
        /\ ~ is_independent(m, E)
        /\ chk.call.op = "add_if_independent"
        /\ ~ chk.call.answer
        /\ \E A, B \in SUBSET E :
               /\ is_independent(m, A)
               /\ is_independent(m, B)
               /\ Cardinality(A) < Cardinality(B)
               /\ \E y \in B \ A : ~ is_independent(m, A \cup {y})

\* C13: a checker created on an independent seed tracks an independent
\* subset after any sequence of add_if_independent calls; each
\* add_if_independent(e) returns true exactly when S \cup {e} is
\* independent and then S becomes S \cup {e}, and otherwise returns false
\* and leaves S unchanged.
C13_CheckerSubsetIndependent ==
    /\ is_independent(chk.matroid, tracked_subset)
    /\ chk.call.op = "add_if_independent" =>
           LET S == chk.call.before.independent_subset
               e == chk.call.element
           IN  /\ chk.call.answer <=> is_independent(chk.matroid, S \cup {e})
               /\ tracked_subset = IF chk.call.answer THEN S \cup {e} ELSE S

\* a graphical checker on a non-empty seed that has grown and has just
\* rejected an element
C13_Witness ==
    /\ chk.matroid.kind = "graphical"
    /\ chk.seed # {}
    /\ chk.call.op = "add_if_independent"
    /\ ~ chk.call.answer
    /\ chk.call.element # SelfLoop
    /\ tracked_subset # chk.seed

\* C14: would_be_independent_after_adding(e), on the default and on the
\* union-find checker, leaves the tracked subset unchanged and changes no
\* later answer: the partition into connected components is the same after
\* the query, and the same query asked again returns the same result.
C14_QueryChangesNothing ==
    chk.call.op = "would_be_independent_after_adding" =>
        LET m == chk.matroid
            before == chk.call.before
        IN  /\ tracked_subset = before.independent_subset
            /\ UnionFind_partition(chk.checker.node_to_connected_component)
               = UnionFind_partition(before.node_to_connected_component)
            /\ \A f \in ground_set(m) :
                   Checker_would_be_independent_after_adding(
                       m, chk.checker, f).answer
                   = Checker_would_be_independent_after_adding(
                         m, before, f).answer
            /\ Checker_would_be_independent_after_adding(
                   m, chk.checker, chk.call.element).answer
               = chk.call.answer

\* a query that compressed a path of the union-find structure
C14_Witness ==
    /\ chk.matroid.kind = "graphical"
    /\ chk.call.op = "would_be_independent_after_adding"
    /\ DOMAIN chk.checker.node_to_connected_component.parents
       = DOMAIN chk.call.before.node_to_connected_component.parents
    /\ chk.checker.node_to_connected_component
       # chk.call.before.node_to_connected_component

\* connected components of the graph (Vertices, S)
ComponentsOver(S) ==
    {IF v \in NodesOf(S) THEN Reachable(S, {v}) ELSE {v} : v \in Vertices}

\* C15: for a graphical checker seeded with any forest and driven by any
\* sequence of add_if_independent calls, the union-find partition equals the
\* connected components of (V, S), and for every edge {u, v} not in S the
\* checker's answer equals the bulk test is_independent(S \cup {{u, v}}):
\* true iff u and v lie in different components, false for a self-loop.
C15_UnionFindMatchesBulk ==
    chk.matroid.kind = "graphical" =>
        LET m == chk.matroid
            S == tracked_subset
        IN  /\ UnionFind_partition(chk.checker.node_to_connected_component)
               = ComponentsOver(S)
            /\ \A e \in ground_set(m) \ S :
                   LET answer ==
                           GraphicalChecker_would_be_independent_after_adding(
                               chk.checker, e).answer
                   IN  /\ answer = is_independent_incremental(m, S, e)
                       /\ answer <=>
                              \A c \in ComponentsOver(S) :
                                  ~ (e[1] \in c /\ e[2] \in c)
                       /\ e[1] = e[2] => ~ answer

\* a checker on a non-empty seed that has just merged two components, with a
\* self-loop and a cycle-closing edge left outside S
C15_Witness ==
    /\ chk.matroid.kind = "graphical"
    /\ chk.seed # {}
    /\ chk.call.op = "add_if_independent"
    /\ chk.call.answer
    /\ chk.call.element \notin chk.seed
    /\ SelfLoop \in ground_set(chk.matroid)
    /\ \E e \in ground_set(chk.matroid) \ tracked_subset :
           /\ e # SelfLoop
           /\ ~ is_independent_incremental(chk.matroid, tracked_subset, e)

\* the checker of the solvers' greedy passes answers as the union-find one
AbstractCheckerAgrees ==
    chk.matroid.kind = "graphical" =>
        \A e \in ground_set(chk.matroid) :
            would_be_independent_after_adding(
                chk.matroid,
                stateful_independence_checker(chk.matroid, tracked_subset), e)
            = GraphicalChecker_would_be_independent_after_adding(
                  chk.checker, e).answer

\* C16: once the removals sent to a removal generator have emptied the
\* ground set, the value yielded for the last removal is the empty set and
\* the generator waits at its final yield, so that the next send ends it
\* with StopIteration.
C16_RemovalTerminates ==
    (rm_last.sent /\ is_empty(rm_matroid) /\ rm_pc \in {"yielded", "done"})
        => (yielded_set = {} /\ rm_pc = "done")

\* C17: constructing a uniform matroid (IntUniformMatroid or
\* MutableIntUniformMatroid) whose declared rank is greater than its size
\* fails with an error, and no matroid is created.
C17_RankAboveSizeRejected ==
    (built.pc = "constructed" /\ built.rank > built.size) => built.raised

\* C17, as the code has it: construction succeeds for every size and rank,
\* rank > size included; the ground set is {0, ..., size - 1}, the rank is
\* the declared one, and a subset is independent iff it has at most rank
\* elements, so that with rank >= size every subset is independent.
C17_RankAboveSizeAccepted ==
    built.pc = "constructed" =>
        LET m == UniformMatroid(built)
        IN  /\ ~ built.raised
            /\ ground_set(m) = 0 .. (built.size - 1)
            /\ m.rank = built.rank
            /\ \A S \in SUBSET ground_set(m) :
                   is_independent(m, S) <=> Cardinality(S) <= built.rank
            /\ built.rank >= built.size =>
                   \A S \in SUBSET ground_set(m) : is_independent(m, S)

\* a non-empty matroid built with a rank above its size
C17_Witness ==
    /\ built.pc = "constructed"
    /\ built.rank > built.size
    /\ built.size > 0
    /\ ~ built.raised
    /\ is_independent(UniformMatroid(built), ground_set(UniformMatroid(built)))

\* C18: after construction from any iterable and after any sequence of
\* add / discard / remove calls on a RandomAccessMutableSet, the index map
\* and the list agree (index[list[i]] = i for every position i, same
\* size), the list holds no duplicates, and the members are exactly those
\* of the mathematical set; removing a present x removes exactly x.
C18_IndexMapAgrees ==
    LET list == ras.set.list
        index == ras.set.element_to_index
    IN  /\ \A i \in 1 .. Len(list) :
               list[i] \in DOMAIN index /\ index[list[i]] = i - 1
        /\ Cardinality(DOMAIN index) = Len(list)
        /\ \A i, j \in 1 .. Len(list) : list[i] = list[j] => i = j
        /\ Range(list) = ras.members
        /\ DOMAIN index = ras.members
        /\ (ras.call.op \in {"discard", "remove"} /\ ~ ras.call.raised) =>
               Range(list) = Range(ras.call.before.list) \ {ras.call.value}

\* the last entry of a list of several has just been removed
C18_Witness ==
    /\ ras.call.op \in {"discard", "remove"}
    /\ Len(ras.call.before.list) >= 2
    /\ ras.call.before.list[Len(ras.call.before.list)] = ras.call.value
    /\ Len(ras.set.list) = Len(ras.call.before.list) - 1

\* C19: LinkedListSet.insert(position, value) of a value already present
\* returns the existing node and changes nothing; otherwise it places the
\* value immediately before `position` (at the end when position is None)
\* and keeps the relative order of all other values; after any sequence of
\* insert / add / discard the value-to-node map has exactly the list's
\* values as keys, each mapped to the node holding it.
C19_LinkedListSetInsert ==
    LET s == lls.set
        values == dllist_values(s.llist)
        before == lls.call.before
        old == dllist_values(before.llist)
        x == lls.call.value
    IN  /\ DOMAIN s.value_to_node = Range(values)
        /\ \A v \in DOMAIN s.value_to_node :
               /\ s.value_to_node[v] \in Range(s.llist.nodes)
               /\ s.llist.value[s.value_to_node[v]] = v
        /\ \A i, j \in 1 .. Len(values) : values[i] = values[j] => i = j
        /\ (lls.call.op = "insert" /\ x \in Range(old)) =>
               /\ s = before
               /\ lls.call.node = before.value_to_node[x]
        /\ (lls.call.op = "insert" /\ x \notin Range(old)) =>
               LET k == IF lls.call.position = NoNode THEN Len(old) + 1
                        ELSE NodeIndex(before.llist, lls.call.position)
               IN  /\ Len(values) = Len(old) + 1
                   /\ values[k] = x
                   /\ s.llist.nodes[k] = lls.call.node
                   /\ \A i \in 1 .. Len(old) :
                          values[IF i < k THEN i ELSE i + 1] = old[i]
                   /\ Without(values, x) = old

\* a new value has just been inserted before a node in the middle of a list
C19_Witness ==
    /\ lls.call.op = "insert"
    /\ lls.call.position # NoNode
    /\ lls.call.value \notin Range(dllist_values(lls.call.before.llist))
    /\ Len(lls.call.before.llist.nodes) >= 2
    /\ NodeIndex(lls.call.before.llist, lls.call.position) = 2

\* C20: in NaiveDynamic, after construction and after every add_element /
\* remove_element call, the element list and the indicator list align: they
\* have the same length, and the i-th indicator is true iff the i-th
\* element is in the current solution.
C20_ListsAligned == Aligned

AddedAtMostOne(e, old, new) ==
    /\ new \ old \subseteq {e}
    /\ Cardinality(old \ new) <= 1
    /\ old \ new # {} => e \in new

\* e is lighter than every other element, and may be selected at all
LightestSelectable(m, e) ==
    /\ get_weight(m, e) >= 0
    /\ \A x \in ground_set(m) \ {e} : get_weight(m, e) < get_weight(m, x)

\* C22: for NaiveDynamic and RestartGreedy, add_element(e, w) of an element
\* not in the ground set returns a solution that selects no element other
\* than e that was not selected before and drops at most one previously
\* selected element, and only if e entered; when e (of a weight >= 0) is
\* lighter than every other element and old \cup {e} is independent, the
\* result is exactly old \cup {e}.
C22_AddChangesAtMostOne ==
    (last.op = "add" /\ ~ last.was_present
     /\ ~ last.nd_raised /\ ~ last.rg_raised) =>
        /\ AddedAtMostOne(last.element, last.nd_before, last.nd_result)
        /\ AddedAtMostOne(last.element, last.rg_before, last.rg_result)
        /\ (/\ LightestSelectable(nd_matroid, last.element)
            /\ is_independent(nd_matroid, last.nd_before \cup {last.element}))
           => last.nd_result = last.nd_before \cup {last.element}
        /\ (/\ LightestSelectable(rg_matroid, last.element)
            /\ is_independent(rg_matroid, last.rg_before \cup {last.element}))
           => last.rg_result = last.rg_before \cup {last.element}

\* add_element(e, w) of an element already present whose weight differs
WeightUpdate ==
    /\ last'.op = "add"
    /\ last'.was_present
    /\ last'.has_weight
    /\ get_weight(nd_matroid, last'.element) # last'.weight

HeavierThanOthers(m, e, w) ==
    \A x \in ground_set(m) \ {e} : get_weight(m, x) < w

\* C23: for NaiveDynamic, add_element(e, w) on an element already in the
\* ground set whose weight differs from w leaves the weight of e at w and e
\* in the ordered list iff w >= 0; an element that had a negative weight and
\* is updated to a weight larger than every other element's is in the
\* returned solution; an update with weight None or an equal weight changes
\* nothing.
C23_UpdateStep ==
    /\ WeightUpdate =>
           /\ ~ last'.nd_raised
           /\ last'.element \in ground_set(nd_matroid')
           /\ get_weight(nd_matroid', last'.element) = last'.weight
           /\ last'.element \in Range(nd_elements') <=> last'.weight >= 0
           /\ (/\ get_weight(nd_matroid, last'.element) < 0
               /\ HeavierThanOthers(nd_matroid, last'.element, last'.weight))
              => last'.element \in last'.nd_result
    /\ (last'.op = "add" /\ last'.was_present /\ ~ WeightUpdate) =>
           /\ UNCHANGED <<nd_matroid, nd_elements, nd_indicators,
                          nd_current_solution>>
           /\ last'.nd_result = nd_current_solution
           /\ ~ last'.nd_raised

C23_AmendedStep ==
    /\ WeightUpdate =>
           /\ ~ last'.nd_raised
           /\ last'.element \in ground_set(nd_matroid')
           /\ get_weight(nd_matroid', last'.element) = last'.weight
           /\ last'.element \in Range(nd_elements') <=> last'.weight >= 0
           /\ (/\ get_weight(nd_matroid, last'.element) < 0
               /\ last'.weight >= 0
               /\ is_independent(nd_matroid, {last'.element})
               /\ HeavierThanOthers(nd_matroid, last'.element, last'.weight))
              => /\ last'.element \in last'.nd_result
                 /\ last'.element \in nd_current_solution'
    /\ (last'.op = "add" /\ last'.was_present /\ ~ WeightUpdate) =>
           /\ UNCHANGED <<nd_matroid, nd_elements, nd_indicators,
                          nd_current_solution>>
           /\ last'.nd_result = nd_current_solution
           /\ ~ last'.nd_raised

PlacedBefore(elements, e) ==
    {elements[i] : i \in 1 .. (IndexOf(elements, e) - 1)}

SameStatus(S) ==
    \A x \in S : x \in nd_current_solution <=> x \in nd_current_solution'

C24_RemoveStep ==
    (/\ last'.op = "remove"
     /\ ~ last'.nd_raised
     /\ last'.element \in nd_current_solution
     /\ last'.element \in Range(nd_elements))
    => SameStatus(PlacedBefore(nd_elements, last'.element))

C24_AddStep ==
    (/\ last'.op = "add"
     /\ ~ last'.was_present
     /\ ~ last'.nd_raised
     /\ last'.element \in Range(nd_elements'))
    => SameStatus(PlacedBefore(nd_elements', last'.element))

\* C24: in NaiveDynamic the greedy prefix is reused unchanged:
\* remove_element(e) of a solution element changes the selected / unselected
\* status of no element placed before e in the ordered list, and
\* add_element(e, w) of a new element changes the status of no element
\* placed before e's insertion point.
C24_PrefixUnchanged == [][C24_RemoveStep /\ C24_AddStep]_vars

\* a send(e) step of the removal generator for an element of the ground set
\* that is not a pivot
NonPivotSend ==
    /\ rm_pc = "yielded"
    /\ rm_last'.sent
    /\ rm_last'.element \in ground_set(rm_matroid)
    /\ rm_last'.element \notin current_set

C25_NonPivotStep ==
    NonPivotSend =>
        /\ rm_pc' = "yielded"
        /\ yielded_set' = yielded_set
        /\ pivots' = pivots
        /\ step' = step
        /\ ground_set(rm_matroid') = ground_set(rm_matroid) \ {rm_last'.element}
        /\ \A x \in ground_set(rm_matroid') :
               get_weight(rm_matroid', x) = get_weight(rm_matroid, x)
        /\ Len(witness_sets') = Len(witness_sets)
        /\ \A i \in 1 .. Len(witness_sets) :
               witness_sets'[i] = witness_sets[i] \ {rm_last'.element}

\* C25: in the uniform-weight removal algorithm, send(e) for an element e of
\* the ground set that is not a pivot yields a set equal to the previously
\* yielded one and leaves the pivot list unchanged; the only changes are that
\* e leaves the ground set and every witness set.
C25_NonPivotSendKeepsSolution == [][C25_NonPivotStep]_vars

\* a non-pivot was sent to a generator holding two pivots; the element is
\* gone from the ground set and from the witness sets it was a candidate in
C25_Witness ==
    /\ rm_pc = "yielded"
    /\ rm_last.sent
    /\ ~ rm_last.was_pivot
    /\ Len(pivots) = 2
    /\ yielded_set = Range(pivots)
    /\ rm_last.element \notin ground_set(rm_matroid)
    /\ is_independent(rm_matroid, {pivots[1]})
    /\ \A i \in 1 .. Len(witness_sets) : rm_last.element \notin witness_sets[i]

\* pivots[0 .. i-1] of the source: the first i pivots
PivotsBefore(i) == {pivots[j] : j \in 1 .. Min(i, Len(pivots))}

\* the elements of the current ground set outside a set of pivots that keep
\* it independent
ValidCandidates(P) ==
    {x \in ground_set(rm_matroid) \ P : is_independent(rm_matroid, P \cup {x})}

AtYield == rm_pc \in {"yielded", "done"}

\* C26: at every yield of the uniform-weight removal algorithm, for every
\* step i the witness set witness_sets[i] is exactly the set of elements x of
\* the current ground set outside pivots[0..i-1] for which
\* pivots[0..i-1] \cup {x} is independent.
C26_WitnessSetsExact ==
    AtYield =>
        \A i \in 0 .. (Len(witness_sets) - 1) :
            witness_sets[i + 1] = ValidCandidates(PivotsBefore(i))

\* C26 amended: the pivot chosen at step i is discarded from witness_sets[i]
\* when it is chosen, so witness_sets[i] is exactly the set of elements x of
\* the current ground set outside pivots[0..i] for which
\* pivots[0..i-1] \cup {x} is independent.
C26_WitnessSetsExactButPivot ==
    AtYield =>
        \A i \in 0 .. (Len(witness_sets) - 1) :
            witness_sets[i + 1] =
                ValidCandidates(PivotsBefore(i)) \ PivotsBefore(i + 1)


\* a pivot was sent, the greedy was rerun to two pivots, and the witness set
\* of the first step still holds a candidate other than the pivots
C26_Witness ==
    /\ rm_pc = "yielded"
    /\ rm_last.sent
    /\ rm_last.was_pivot
    /\ Len(pivots) = 2
    /\ Len(witness_sets) = 3
    /\ witness_sets[1] \ Range(pivots) # {}
    /\ pivots[1] \notin witness_sets[1]
    /\ pivots[1] \in ValidCandidates({})

\* a send(e) step of the removal generator for the pivot chosen at step k
PivotSend ==
    /\ rm_pc = "yielded"
    /\ rm_last'.sent
    /\ rm_last'.element \in ground_set(rm_matroid)
    /\ rm_last'.element \in current_set

\* what the rerun from step k keeps and what it recomputes
RerunFromStep(k, e) ==
    /\ Len(pivots') >= k
    /\ \A i \in 1 .. k : pivots'[i] = pivots[i]
    /\ Len(witness_sets') = Len(pivots') + 1
    /\ \A i \in 1 .. k : witness_sets'[i] = witness_sets[i] \ {e}
    /\ IF witness_sets[k + 1] \ {e} = {}
       THEN /\ Len(pivots') = k
            /\ witness_sets'[k + 1] = {}
       ELSE /\ Len(pivots') > k
            /\ pivots'[k + 1] \in witness_sets[k + 1] \ {e}
            /\ witness_sets'[k + 1] = witness_sets[k + 1] \ {e, pivots'[k + 1]}
    /\ e \notin Range(pivots')

C27_PivotStep ==
    PivotSend =>
        /\ RerunFromStep(IndexOf(pivots, rm_last'.element) - 1, rm_last'.element)
        /\ yielded_set' = Range(pivots')

\* C27: in the uniform-weight removal algorithm, when send(e) removes the
\* pivot chosen at step k, the pivots chosen at steps 0..k-1 stay in the new
\* solution in the same order, the witness sets of steps 0..k are kept (minus
\* e), only the pivots and witness sets from step k onward are recomputed, and
\* the new solution is the set of the resulting pivots.
C27_PivotSendRerunsFromStep == [][C27_PivotStep]_vars

C27_AmendedStep ==
    (PivotSend /\ ~ is_empty(rm_matroid')) => C27_PivotStep

\* C27 amended: the same, for a send that leaves the ground set non-empty;
\* a send that empties the ground set yields the empty set and leaves the
\* pivot list as it was.
C27_PivotSendRerunsFromStepNonEmpty == [][C27_AmendedStep]_vars


\* a pivot was sent to a generator that still has elements: the greedy was
\* rerun to two pivots, none of them the removed one, and the second step
\* keeps an alternative candidate
C27_Witness ==
    /\ rm_pc = "yielded"
    /\ rm_last.sent
    /\ rm_last.was_pivot
    /\ ~ is_empty(rm_matroid)
    /\ Len(pivots) = 2
    /\ yielded_set = Range(pivots)
    /\ rm_last.element \notin Range(pivots)
    /\ witness_sets[2] # {}

RECURSIVE WithElements(_, _)
\* the matroid with every element of S in its ground set
WithElements(m, S) ==
    IF S = {}
    THEN m
    ELSE LET x == CHOOSE y \in S : TRUE
         IN  WithElements(Matroid_add_element(m, x, FALSE, DefaultWeight),
                          S \ {x})

\* S is independent in the matroid that has the elements of S
IndependentOnceAdded(m, S) == is_independent(WithElements(m, S), S)

\* a send(e) step of the addition generator, told by the element it records
AdderSent(e) ==
    /\ adder.pc = "yielded"
    /\ adder'.pc = "yielded"
    /\ adder'.sent = e

C28_SendStep ==
    \A e \in RemovalUniverse(adder.matroid.kind) :
        AdderSent(e) =>
            /\ adder_yielded \subseteq adder_yielded'
            /\ adder_yielded' \ adder_yielded \subseteq {e}
            /\ e \in adder_yielded'
               <=> IndependentOnceAdded(adder.matroid, adder_yielded \cup {e})

AbsentSend ==
    /\ rm_pc = "yielded"
    /\ rm_last'.sent
    /\ rm_last'.element \notin ground_set(rm_matroid)
    /\ rm_last' # rm_last

\* a send(e) step for an element of the ground set, made on a generator that
\* has yielded or whose previous send failed
GroundSend ==
    /\ rm_pc \in {"yielded", "raised"}
    /\ rm_last'.sent
    /\ rm_last'.element \in ground_set(rm_matroid)

\* S is a maximal independent set of the matroid
IsBasis(m, S) ==
    /\ S \subseteq ground_set(m)
    /\ is_independent(m, S)
    /\ \A x \in ground_set(m) \ S : ~ is_independent(m, S \cup {x})

C29_FailedSendStep ==
    AbsentSend =>
        /\ rm_pc' = "raised"
        /\ UNCHANGED <<rm_matroid, pivots, witness_sets>>

C29_LaterSendStep ==
    GroundSend =>
        /\ rm_pc' \in {"yielded", "done"}
        /\ ground_set(rm_matroid') = ground_set(rm_matroid) \ {rm_last'.element}
        /\ IsBasis(rm_matroid', yielded_set')

\* C29: in the uniform-weight removal algorithm, send(e) of an element that is
\* not in the ground set fails with an error and leaves the matroid and the
\* solver in their pre-call state: pivots and witness sets are unchanged, and
\* a later send of an element that is in the ground set still yields the
\* correct updated solution.
C29_FailedSendLeavesState == [][C29_FailedSendStep /\ C29_LaterSendStep]_vars

\* C30: elements of a graphical matroid are unordered pairs: for
\* RestartGreedy and NaiveDynamic over a GraphicalMatroid,
\* remove_element((v, u)) has the same effect as remove_element((u, v)): when
\* the edge is in the current solution it leaves the ground set and is not
\* contained in the returned solution or in `current`, under either
\* orientation.
C30_UnorderedRemoval ==
    (/\ last.op = "remove_reversed" /\ last.was_pivot
     /\ ~ last.nd_raised /\ ~ last.rg_raised)
    => LET given == last.element
           both == {given, reversed(given)}
       IN  /\ both \cap ground_set(nd_matroid) = {}
           /\ both \cap ground_set(rg_matroid) = {}
           /\ both \cap (last.rg_result \cup rg_current) = {}
           /\ both \cap (last.nd_result \cup nd_current_solution) = {}

====
